---- MODULE Spec2Model ----
(***************************************************************************)
(* A model of the ICAP AI Examiner backend (src/app.py): the credential    *)
(* service (/login, /verify, /admin/login), the admin-gated user and       *)
(* chapter endpoints, and the answer evaluation behind /check-answer.      *)
(*                                                                         *)
(* Spec          the credential service and the user store                 *)
(* SpecChapters  the chapter repository behind the admin gate              *)
(* SpecEval      the local scoring rules applied to an answer being typed  *)
(* SpecCheck     the /check-answer handler                                 *)
(* SpecRace      two threads running the handlers that rewrite a JSON file *)
(***************************************************************************)
EXTENDS Integers, Sequences, FiniteSets, TLC

\* ------------------------------------------------------------------ bounds
\* concurrent runs start at most MaxRequests requests
MaxRequests == 3
\* uuid.uuid4() is called at most MaxUuid times in a run
MaxUuid == 3
\* the largest chapter number a client asks /verify about
MaxChapter == 2
\* an answer is typed in at most MaxFragments fragments ...
MaxFragments == 2
\* ... and at most MaxFillers blocks of fifty filler words
MaxFillers == 4
\* an answer sent to /check-answer is made of at most MaxTyped parts
MaxTyped == 3

\* --------------------------------------------------------------- encodings
\* Python None (an absent header, an absent JSON member, ADMIN_TOKEN = None)
None == 0 - 1
\* the empty string "" as a token or header value
EmptyStr == 0
\* str(uuid.uuid4()): the n-th uuid drawn is the positive integer n, so that
\* two draws are equal only if they are the same draw
Uuids == 1..MaxUuid
\* Python truthiness of a token or header value: None and "" are falsy
Truthy(x) == x > 0

\* ------------------------------------------------------------ input domains
UserNames == {"alice", "bob"}
Passwords == {"pw1", "pw2"}
AdminNames == {"admin", "alice"}
AdminPasswords == {"admin123", "pw1"}
\* what a client can put in the Admin-Token header or the token member
TokenValues == {None, EmptyStr} \cup Uuids
\* chapter numbers sent to /verify
ChapterNumbers == 0..MaxChapter
\* chapter ids in a URL or in the chapter_id member ("" is the falsy id)
ChapterIds == {"", "chapter1", "ch9"}
ChapterNames == {"", "Intro"}
Q1 == [id |-> "q1", text |-> "What are the main sources of law?", marks |-> 5]
QuestionLists == {<< >>, <<Q1>>}

VARIABLES
    ADMIN_TOKEN,    \* the module global ADMIN_TOKEN
    adminTokenFile, \* the content of admin_token.txt (None: no file)
    users,          \* users.json: username -> [password, token]
    userOrder,      \* the key order of users.json (dicts keep insertion order)
    chapters,       \* chapters.json: chapter id -> [name, questions]
    nextUuid,       \* the number of the next uuid4 to be drawn
    issuedAdmin,    \* history: the admin tokens handed out, oldest first
    issuedUser,     \* history: the tokens /login has returned to each user
    resp,           \* the last request and the response it got
    answer,         \* the answer text a candidate has typed so far
    verdict,        \* evaluate_with_local_rules of that text
    nFrag,          \* how many fragments the text was typed in
    nFill,          \* how many blocks of filler words it holds
    capc,           \* the position of the /check-answer handler
    cactx,          \* the locals of the /check-answer handler
    inflight,       \* per server thread: the request it handles, its locals
    served          \* how many requests the server threads have started

authVars == <<ADMIN_TOKEN, adminTokenFile, users, userOrder, chapters,
              nextUuid, issuedAdmin, issuedUser, resp>>
scoreVars == <<answer, verdict, nFrag, nFill>>
checkVars == <<capc, cactx>>
evalVars == <<answer, verdict, nFrag, nFill, capc, cactx>>
raceVars == <<inflight, served>>
vars == <<ADMIN_TOKEN, adminTokenFile, users, userOrder, chapters,
          nextUuid, issuedAdmin, issuedUser, resp, answer, verdict, nFrag,
          nFill, capc, cactx, inflight, served>>

\* ----------------------------------------------------------------- responses
NoBody == [name |-> "", questions |-> << >>]
\* a request with its response; the members an endpoint does not use keep
\* these defaults
BaseResp ==
    [op |-> "none", code |-> 0,
     reqToken |-> None, reqUser |-> "", reqPass |-> "",
     reqChapter |-> 1, chapterGiven |-> FALSE, reqId |-> "",
     token |-> None, username |-> "", valid |-> FALSE, mode |-> "",
     body |-> NoBody, count |-> 0]

\* --------------------------------------------------------- credential service
\* a wrong test of the credentials: the password is not compared
CredentialsOkNameOnly(us, username, password) == username \in DOMAIN us

\* login's test of the credentials
CredentialsOk(us, username, password) ==
    username \in DOMAIN us /\ us[username].password = password

\* a wrong login store: the token is written to every user with that password
LoginStoreByPassword(us, username, token) ==
    [x \in DOMAIN us |->
        IF us[x].password = us[username].password
        THEN [us[x] EXCEPT !.token = token] ELSE us[x]]

\* login's users[username]["token"] = token
LoginStore(us, username, token) ==
    [us EXCEPT ![username].token = token]

\* POST /login
login(username, password) ==
    IF CredentialsOk(users, username, password)
    THEN /\ nextUuid <= MaxUuid
         /\ users' = LoginStore(users, username, nextUuid)
         /\ nextUuid' = nextUuid + 1
         /\ resp' = [BaseResp EXCEPT !.op = "login", !.code = 200,
                        !.reqUser = username, !.reqPass = password,
                        !.token = nextUuid, !.username = username]
         /\ issuedUser' = [issuedUser EXCEPT
                               ![username] = @ \cup {nextUuid}]
         /\ UNCHANGED <<ADMIN_TOKEN, adminTokenFile, userOrder, chapters,
                        issuedAdmin>>
    ELSE /\ resp' = [BaseResp EXCEPT !.op = "login", !.code = 401,
                        !.reqUser = username, !.reqPass = password]
         /\ UNCHANGED <<ADMIN_TOKEN, adminTokenFile, users, userOrder,
                        chapters, nextUuid, issuedAdmin, issuedUser>>

\* the first user, in file order from position i, whose token is `token`
RECURSIVE FirstMatch(_, _, _, _)
FirstMatch(us, order, token, i) ==
    IF i > Len(order) THEN ""
    ELSE IF us[order[i]].token = token THEN order[i]
    ELSE FirstMatch(us, order, token, i + 1)

\* a wrong demo policy: every chapter up to 1 is open
DemoOpenUpTo(chapter) == chapter <= 1

\* verify's int(chapter) == 1
DemoOpen(chapter) == chapter = 1

\* the body /verify answers with
VerifyResult(us, order, token, chapter) ==
    IF ~Truthy(token)
    THEN [valid |-> DemoOpen(chapter), mode |-> "demo", username |-> ""]
    ELSE LET u == FirstMatch(us, order, token, 1) IN
         IF u # ""
         THEN [valid |-> TRUE, mode |-> "login", username |-> u]
         ELSE [valid |-> FALSE, mode |-> "invalid", username |-> ""]

\* POST /verify; chapter defaults to 1 when the member is absent
verify(token, given, c) ==
    LET chapter == IF given THEN c ELSE 1
        r == VerifyResult(users, userOrder, token, chapter) IN
    /\ resp' = [BaseResp EXCEPT !.op = "verify", !.code = 200,
                   !.reqToken = token, !.chapterGiven = given,
                   !.reqChapter = chapter, !.valid = r.valid,
                   !.mode = r.mode, !.username = r.username]
    /\ UNCHANGED <<ADMIN_TOKEN, adminTokenFile, users, userOrder, chapters,
                   nextUuid, issuedAdmin, issuedUser>>

\* a wrong mint: the token of the first admin login is handed out again
AdminMintReused(n, issued) == IF issued = << >> THEN n ELSE issued[1]

\* admin_login's ADMIN_TOKEN = str(uuid.uuid4())
AdminMint(n, issued) == n

\* POST /admin/login
admin_login(username, password) ==
    IF username = "admin" /\ password = "admin123"
    THEN LET t == AdminMint(nextUuid, issuedAdmin) IN
         /\ nextUuid <= MaxUuid
         /\ ADMIN_TOKEN' = t
         /\ adminTokenFile' = t
         /\ nextUuid' = nextUuid + 1
         /\ issuedAdmin' = Append(issuedAdmin, t)
         /\ resp' = [BaseResp EXCEPT !.op = "admin_login", !.code = 200,
                        !.reqUser = username, !.reqPass = password,
                        !.token = t]
         /\ UNCHANGED <<users, userOrder, chapters, issuedUser>>
    ELSE /\ resp' = [BaseResp EXCEPT !.op = "admin_login", !.code = 401,
                        !.reqUser = username, !.reqPass = password]
         /\ UNCHANGED <<ADMIN_TOKEN, adminTokenFile, users, userOrder,
                        chapters, nextUuid, issuedAdmin, issuedUser>>

\* ---------------------------------------------------------------- admin gates
\* add_user: not request.headers.get("Admin-Token") == ADMIN_TOKEN
AddUserAuthorized(header, adminToken) == header = adminToken

\* update_chapter's three tests
UpdateChapterAuthorized(header, adminToken) ==
    /\ Truthy(header)
    /\ adminToken # None
    /\ header = adminToken

\* delete_chapter: admin_token != ADMIN_TOKEN
DeleteChapterAuthorized(header, adminToken) == ~(header # adminToken)

\* get_all_chapters: admin_token != ADMIN_TOKEN
GetAllChaptersAuthorized(header, adminToken) == ~(header # adminToken)

\* a wrong entry: a user who is already stored keeps the token they had
NewUserKeepingToken(us, user, pass) ==
    [password |-> pass,
     token |-> IF user \in DOMAIN us THEN us[user].token ELSE EmptyStr]

\* add_user's users[data["user"]] = {"password": ..., "token": ""}
NewUser(us, user, pass) == [password |-> pass, token |-> EmptyStr]

\* add_user's assignment to the users it loaded
AddUserStore(us, user, pass) ==
    [x \in DOMAIN us \cup {user} |->
        IF x = user THEN NewUser(us, user, pass) ELSE us[x]]

\* the key order after that assignment: a new key goes last
AddUserOrder(us, order, user) ==
    IF user \in DOMAIN us THEN order ELSE Append(order, user)

\* POST /admin/add-user
add_user(header, user, pass) ==
    IF ~AddUserAuthorized(header, ADMIN_TOKEN)
    THEN /\ resp' = [BaseResp EXCEPT !.op = "add_user", !.code = 403,
                        !.reqToken = header, !.reqUser = user,
                        !.reqPass = pass]
         /\ UNCHANGED <<ADMIN_TOKEN, adminTokenFile, users, userOrder,
                        chapters, nextUuid, issuedAdmin, issuedUser>>
    ELSE /\ users' = AddUserStore(users, user, pass)
         /\ userOrder' = AddUserOrder(users, userOrder, user)
         /\ resp' = [BaseResp EXCEPT !.op = "add_user", !.code = 200,
                        !.reqToken = header, !.reqUser = user,
                        !.reqPass = pass, !.username = user]
         /\ UNCHANGED <<ADMIN_TOKEN, adminTokenFile, chapters, nextUuid,
                        issuedAdmin, issuedUser>>

\* ---------------------------------------------------------- chapter repository
\* a wrong upsert: the questions are added to the ones already stored
UpsertAppending(chs, id, name, questions) ==
    [x \in DOMAIN chs \cup {id} |->
        IF x = id
        THEN [name |-> name,
              questions |-> IF id \in DOMAIN chs
                            THEN chs[id].questions \o questions
                            ELSE questions]
        ELSE chs[x]]

\* update_chapter's chapters[chapter_id] = {...}
Upsert(chs, id, name, questions) ==
    [x \in DOMAIN chs \cup {id} |->
        IF x = id THEN [name |-> name, questions |-> questions] ELSE chs[x]]

\* get_chapter's answer: the status and the document
GetChapterResult(chs, id) ==
    IF id \notin DOMAIN chs
    THEN [code |-> 404, body |-> NoBody]
    ELSE [code |-> 200, body |-> chs[id]]

\* GET /chapter/<chapter_id>; a URL segment is never empty
get_chapter(id) ==
    /\ id # ""
    /\ LET r == GetChapterResult(chapters, id) IN
       resp' = [BaseResp EXCEPT !.op = "get_chapter", !.code = r.code,
                   !.reqId = id, !.body = r.body]
    /\ UNCHANGED <<ADMIN_TOKEN, adminTokenFile, users, userOrder, chapters,
                   nextUuid, issuedAdmin, issuedUser>>

\* POST /admin/update-chapter; hasData is false for an empty JSON body
update_chapter(header, hasData, id, name, questions) ==
    LET r == [BaseResp EXCEPT !.op = "update_chapter", !.reqToken = header,
                 !.reqId = id, !.body = [name |-> name,
                                         questions |-> questions]] IN
    IF ~UpdateChapterAuthorized(header, ADMIN_TOKEN)
    THEN /\ resp' = [r EXCEPT !.code = 403]
         /\ UNCHANGED <<ADMIN_TOKEN, adminTokenFile, users, userOrder,
                        chapters, nextUuid, issuedAdmin, issuedUser>>
    ELSE IF ~hasData \/ id = ""
    THEN /\ resp' = [r EXCEPT !.code = 400]
         /\ UNCHANGED <<ADMIN_TOKEN, adminTokenFile, users, userOrder,
                        chapters, nextUuid, issuedAdmin, issuedUser>>
    ELSE /\ chapters' = Upsert(chapters, id, name, questions)
         /\ resp' = [r EXCEPT !.code = 200, !.count = Len(questions)]
         /\ UNCHANGED <<ADMIN_TOKEN, adminTokenFile, users, userOrder,
                        nextUuid, issuedAdmin, issuedUser>>

\* GET /admin/chapters
get_all_chapters(header) ==
    /\ resp' = IF ~GetAllChaptersAuthorized(header, ADMIN_TOKEN)
               THEN [BaseResp EXCEPT !.op = "get_all_chapters",
                        !.code = 403, !.reqToken = header]
               ELSE [BaseResp EXCEPT !.op = "get_all_chapters",
                        !.code = 200, !.reqToken = header,
                        !.count = Cardinality(DOMAIN chapters)]
    /\ UNCHANGED <<ADMIN_TOKEN, adminTokenFile, users, userOrder, chapters,
                   nextUuid, issuedAdmin, issuedUser>>

\* DELETE /admin/delete-chapter/<chapter_id>
delete_chapter(header, id) ==
    LET r == [BaseResp EXCEPT !.op = "delete_chapter", !.reqToken = header,
                 !.reqId = id] IN
    /\ id # ""
    /\ IF ~DeleteChapterAuthorized(header, ADMIN_TOKEN)
       THEN /\ resp' = [r EXCEPT !.code = 403]
            /\ UNCHANGED chapters
       ELSE IF id \notin DOMAIN chapters
       THEN /\ resp' = [r EXCEPT !.code = 404]
            /\ UNCHANGED chapters
       ELSE /\ chapters' = [x \in DOMAIN chapters \ {id} |-> chapters[x]]
            /\ resp' = [r EXCEPT !.code = 200]
    /\ UNCHANGED <<ADMIN_TOKEN, adminTokenFile, users, userOrder, nextUuid,
                   issuedAdmin, issuedUser>>

\* POST /admin/check-token
check_admin_token(header) ==
    /\ resp' = [BaseResp EXCEPT !.op = "check_admin_token", !.code = 200,
                   !.reqToken = header,
                   !.valid = (header = ADMIN_TOKEN)]
    /\ UNCHANGED <<ADMIN_TOKEN, adminTokenFile, users, userOrder, chapters,
                   nextUuid, issuedAdmin, issuedUser>>

\* ------------------------------------------------------------------- texts
\* A text is a sequence of one-character strings.
UpperChars == <<"A", "B", "C", "D", "E", "F", "G", "H", "I", "J", "K", "L",
                "M", "N", "O", "P", "Q", "R", "S", "T", "U", "V", "W", "X",
                "Y", "Z">>
LowerChars == <<"a", "b", "c", "d", "e", "f", "g", "h", "i", "j", "k", "l",
                "m", "n", "o", "p", "q", "r", "s", "t", "u", "v", "w", "x",
                "y", "z">>
LowerMap == [c \in {UpperChars[i] : i \in 1..26} |->
                LowerChars[CHOOSE i \in 1..26 : UpperChars[i] = c]]
\* str.lower()
Lower(c) == IF c \in DOMAIN LowerMap THEN LowerMap[c] ELSE c
StrLower(t) == [i \in 1..Len(t) |-> Lower(t[i])]
\* the whitespace str.split() and str.strip() cut at
IsSpace(c) == c \in {" ", "\n", "\t"}
\* s in t
Contains(t, s) ==
    \E i \in 1..(Len(t) - Len(s) + 1) :
        \A j \in 1..Len(s) : t[i + j - 1] = s[j]
\* len(t.split())
WordCount(t) ==
    Cardinality({i \in 1..Len(t) :
                    ~IsSpace(t[i]) /\ (i = 1 \/ IsSpace(t[i - 1]))})
\* the least member of a non-empty set of positions
First(S) == CHOOSE i \in S : \A j \in S : i <= j
\* t.count('\n\n') from position i on: the next occurrence is counted and
\* the search goes on behind it, so that occurrences do not overlap
RECURSIVE CountBlankLines(_, _)
CountBlankLines(t, i) ==
    LET found == {j \in i..(Len(t) - 1) : t[j] = "\n" /\ t[j + 1] = "\n"}
    IN IF found = {} THEN 0
       ELSE 1 + CountBlankLines(t, First(found) + 2)
Min(a, b) == IF a <= b THEN a ELSE b

\* the vocabularies of evaluate_with_local_rules
wrong_topics ==
    << <<"m", "i", "t", "o", "c", "h", "o", "n", "d", "r", "i", "a">>,
       <<"c", "e", "l", "l">>,
       <<"b", "i", "o", "l", "o", "g", "y">>,
       <<"s", "c", "i", "e", "n", "c", "e">>,
       <<"p", "h", "y", "s", "i", "c", "s">>,
       <<"c", "o", "m", "p", "u", "t", "e", "r">> >>
law_topics ==
    << <<"l", "e", "g", "a", "l">>,
       <<"l", "a", "w">>,
       <<"c", "o", "n", "t", "r", "a", "c", "t">>,
       <<"a", "c", "t">>,
       <<"s", "e", "c", "t", "i", "o", "n">>,
       <<"c", "o", "u", "r", "t">> >>
\* any(topic in answer_lower for topic in topics)
AnyIn(answer_lower, topics) ==
    \E k \in 1..Len(topics) : Contains(answer_lower, topics[k])

\* ------------------------------------------------------------ answer evaluator
\* a verdict text, by its tagged lines; an external response is opaque and
\* known by its length only
NoVerdict == [src |-> "none", score |-> None, relevance |-> "",
              words |-> 0, len |-> 0]
\* the verdict of the wrong-topic branch
WrongTopicVerdict == [src |-> "local", score |-> 1,
                      relevance |-> "Completely wrong topic",
                      words |-> 0, len |-> 0]

\* a wrong score: the remainder of the word count instead of the quotient
ScoreByRemainder(word_count, paragraphs) ==
    Min(3 + (word_count % 50) + Min(paragraphs, 3), 9)

\* score = min(3 + (word_count // 50) + min(paragraphs, 3), 9)
Score(word_count, paragraphs) ==
    Min(3 + (word_count \div 50) + Min(paragraphs, 3), 9)

\* a wrong guard: the "not" before has_law is lost
IsWrongTopicLostNot(has_wrong, has_law) == has_wrong /\ has_law

\* the guard of the wrong-topic branch: has_wrong and not has_law
IsWrongTopic(has_wrong, has_law) == has_wrong /\ ~has_law

evaluate_with_local_rules(answer_text, question_hint) ==
    LET answer_lower == StrLower(answer_text) IN
    IF IsWrongTopic(AnyIn(answer_lower, wrong_topics),
                    AnyIn(answer_lower, law_topics))
    THEN WrongTopicVerdict
    ELSE LET word_count == WordCount(answer_text)
             paragraphs == CountBlankLines(answer_text, 1) + 1 IN
         [src |-> "local", score |-> Score(word_count, paragraphs),
          relevance |-> "On topic", words |-> word_count, len |-> 0]

\* evaluate_with_ollama hands over to the local rules
evaluate_with_ollama(answer_text, question_hint) ==
    evaluate_with_local_rules(answer_text, question_hint)

\* ------------------------------------------------------------ fragments typed
wCell == <<"c", "e", "l", "l">>
wLaw == <<"L", "a", "w">>
wOk == <<"o", "k">>
wPara == <<"\n", "\n">>
\* fifty one-letter words, each followed by a blank
Filler == [i \in 1..100 |-> IF i % 2 = 1 THEN "x" ELSE " "]
Fragments == {wCell, wLaw, wOk, wPara}

\* the answers a client sends to /check-answer
RECURSIVE TextsUpTo(_)
TextsUpTo(n) ==
    IF n = 0 THEN {<< >>}
    ELSE LET prev == TextsUpTo(n - 1) IN
         prev \cup {t \o f : t \in prev, f \in Fragments \cup {Filler}}
TypedAnswers == TextsUpTo(MaxTyped)

\* typing one more fragment; the text is then scored by the local rules
TypeFragment(f) ==
    /\ nFrag < MaxFragments
    /\ nFrag' = nFrag + 1
    /\ answer' = answer \o f
    /\ verdict' = evaluate_with_local_rules(answer', "")
    /\ UNCHANGED nFill

\* typing fifty more words
TypeFiller ==
    /\ nFill < MaxFillers
    /\ nFill' = nFill + 1
    /\ answer' = answer \o Filler
    /\ verdict' = evaluate_with_local_rules(answer', "")
    /\ UNCHANGED nFrag

\* ------------------------------------------------------------- question hint
chapter_hints ==
    <<"Introduction to Legal System", "Offer and Acceptance",
      "Contract Validity", "Free Consent", "Contingent Contracts",
      "Contract Performance", "Performance of Contracts-2",
      "Quasi Contracts", "Breach of Contract", "Agency Law",
      "Partnership Nature", "Partners Relations", "Third Party Relations",
      "Negotiable Instruments", "AML and E-Payments">>
\* t.split('\n') of the text from position `start` on
RECURSIVE SplitLines(_, _)
SplitLines(t, start) ==
    LET breaks == {j \in start..Len(t) : t[j] = "\n"} IN
    IF breaks = {} THEN <<SubSeq(t, start, Len(t))>>
    ELSE <<SubSeq(t, start, First(breaks) - 1)>>
            \o SplitLines(t, First(breaks) + 1)
\* line.strip()
Strip(line) ==
    LET ink == {i \in 1..Len(line) : ~IsSpace(line[i])} IN
    IF ink = {} THEN << >>
    ELSE SubSeq(line, First(ink), CHOOSE i \in ink : \A j \in ink : i >= j)
kwLegalSystem == <<"l", "e", "g", "a", "l", " ", "s", "y", "s", "t", "e", "m">>
kwDefineLegal == <<"d", "e", "f", "i", "n", "e", " ", "l", "e", "g", "a", "l">>

extract_question_hint(answer_text, chapter) ==
    LET answer_lower == StrLower(answer_text)
        default_hint == IF chapter \in 1..Len(chapter_hints)
                        THEN chapter_hints[chapter] ELSE "Business Law"
        lines == SplitLines(answer_text, 1)
        asked == {k \in 1..Min(5, Len(lines)) :
                     Contains(lines[k], <<"?">>) /\ Len(lines[k]) < 200}
    IN IF asked # {}
       THEN Strip(lines[First(asked)])
       ELSE IF \/ Contains(answer_lower, kwLegalSystem)
               \/ Contains(answer_lower, kwDefineLegal)
       THEN "What is meant by Legal System?"
       ELSE IF \/ Contains(answer_lower, wrong_topics[1])
               \/ Contains(answer_lower, wCell)
       THEN "Biology topic (but question was Law)"
       ELSE default_hint

\* ------------------------------------------------------------ /check-answer
\* the length a response of the external model must exceed to be used
OverrideMinLen == 50
\* how the call of the external model can end: no key, the placeholder key,
\* requests.post raising (also its timeout), a status other than 200, a 200
\* without candidates, a 200 with a text of some length
GoogleCalls ==
    {[kind |-> k, len |-> 0] :
        k \in {"nokey", "placeholder", "exception", "non200", "malformed"}}
    \cup {[kind |-> "ok", len |-> n] :
            n \in {0, OverrideMinLen, OverrideMinLen + 1}}
NoCall == [kind |-> "none", len |-> 0]

\* what evaluate_with_google_ai returns: the text (by its length) or None
evaluate_with_google_ai(call) ==
    IF call.kind = "ok" THEN call.len ELSE None

\* a wrong test: any response of the external model is used
UseGoogleAlways(google_response) == google_response # None

\* google_response and len(google_response) > 50
UseGoogle(google_response) ==
    /\ google_response # None
    /\ google_response # 0
    /\ google_response > OverrideMinLen

relWrongTopic == <<"C", "o", "m", "p", "l", "e", "t", "e", "l", "y", " ",
                   "w", "r", "o", "n", "g", " ", "t", "o", "p", "i", "c">>
relOnTopic == <<"O", "n", " ", "t", "o", "p", "i", "c">>
\* the text of a verdict's RELEVANCE line
RelevanceText(relevance) ==
    IF relevance = "Completely wrong topic" THEN relWrongTopic
    ELSE IF relevance = "On topic" THEN relOnTopic
    ELSE << >>

NoResult == [kind |-> "none", chapter |-> 1, final_score |-> None,
             relevance |-> "", icon |-> "", passthrough |-> 0]
\* the fixed text of the except branch
PendingResult == [NoResult EXCEPT !.kind = "pending"]

\* format_response: the tagged lines of a local verdict are rewritten, the
\* lines of any other text pass through
format_response(ai_response, chapter) ==
    IF ai_response.src = "local"
    THEN [kind |-> "formatted", chapter |-> chapter,
          final_score |-> ai_response.score,
          relevance |-> ai_response.relevance,
          icon |-> LET r == StrLower(RelevanceText(ai_response.relevance))
                   IN IF \/ Contains(r, <<"y", "e", "s">>)
                         \/ Contains(r, <<"c", "o", "r", "r", "e", "c", "t">>)
                      THEN "check" ELSE "warning",
          passthrough |-> 0]
    ELSE [kind |-> "formatted", chapter |-> chapter, final_score |-> None,
          relevance |-> "", icon |-> "", passthrough |-> ai_response.len]

\* the locals of check_answer and, once it has answered, its response
IdleCtx ==
    [full_text |-> << >>, chapter |-> 1, hint |-> "",
     ai_response |-> NoVerdict, local |-> NoVerdict, call |-> NoCall,
     google_response |-> None, trace |-> << >>,
     code |-> 0, status |-> "", result |-> NoResult, error |-> ""]

\* a handler without the except branch: the exception becomes a 500
OnExceptionUncaught(ctx, error) ==
    [ctx EXCEPT !.code = 500, !.status = "error", !.error = error]

\* check_answer's except branch
OnException(ctx, error) ==
    [ctx EXCEPT !.code = 200, !.status = "processing",
                !.result = PendingResult, !.error = error]

BodyKinds == {"missing", "null", "array"}
AnswerKinds == {"absent", "number", "text"}
ImageKinds == {"absent", "notDataUrl", "badBase64", "ocrBlank", "ocrText"}
ChapterArgs == {[kind |-> "absent", n |-> 1], [kind |-> "int", n |-> 3],
                [kind |-> "list", n |-> 0]}
ImageMarker == <<"\n", "[", "I", "m", "a", "g", "e", " ", "C", "o", "n",
                 "t", "e", "n", "t", "]", ":", " ">>
OcrText == <<"L", "a", "w", "\n">>
\* what the image adds to full_text
ImageText(img) == IF img = "ocrText" THEN ImageMarker \o OcrText ELSE << >>

\* check_answer on a body that is missing or is no JSON object: request.json
\* or data.get raises
check_answer_bad_body(body) ==
    /\ capc = "idle"
    /\ cactx' = OnException(IdleCtx, body)
    /\ capc' = "responded"

\* check_answer up to the call of the evaluator
check_answer_begin(ans, text, img, ch) ==
    /\ capc = "idle"
    /\ IF ans = "number"
       THEN /\ cactx' = OnException(IdleCtx, "len")
            /\ capc' = "responded"
       ELSE IF ch.kind = "list"
       THEN /\ cactx' = OnException(IdleCtx, "unhashable")
            /\ capc' = "responded"
       ELSE LET typed_answer == IF ans = "absent" THEN << >> ELSE text IN
            /\ cactx' = [IdleCtx EXCEPT
                           !.full_text = typed_answer \o ImageText(img),
                           !.chapter = ch.n,
                           !.hint = extract_question_hint(typed_answer, ch.n)]
            /\ capc' = "evaluate"

\* ai_response = evaluate_with_ollama(full_text, question_hint)
check_answer_local ==
    /\ capc = "evaluate"
    /\ LET v == evaluate_with_ollama(cactx.full_text, cactx.hint) IN
       cactx' = [cactx EXCEPT !.ai_response = v, !.local = v,
                              !.trace = Append(@, "local")]
    /\ capc' = "google"

\* google_response = evaluate_with_google_ai(full_text) and the override
check_answer_google(call) ==
    /\ capc = "google"
    /\ LET g == evaluate_with_google_ai(call) IN
       cactx' = [cactx EXCEPT
                   !.call = call,
                   !.google_response = g,
                   !.ai_response =
                       IF UseGoogle(g)
                       THEN [NoVerdict EXCEPT !.src = "google", !.len = g]
                       ELSE @,
                   !.trace = Append(@, "google")]
    /\ capc' = "format"

\* format_response and the success response
check_answer_respond ==
    /\ capc = "format"
    /\ cactx' = [cactx EXCEPT
                   !.code = 200, !.status = "success",
                   !.result = format_response(cactx.ai_response,
                                              cactx.chapter),
                   !.trace = Append(@, "format")]
    /\ capc' = "responded"

\* the response has gone out and the handler's locals are dropped
check_answer_return ==
    /\ capc = "responded"
    /\ cactx' = IdleCtx
    /\ capc' = "idle"

\* -------------------------------------------------------- concurrent requests
\* app.run serves each request on a thread of its own; a handler that changes
\* a JSON file reads the whole file, changes its copy and writes the whole
\* file back, and another thread can run between the read and the write.
Threads == {"t1", "t2"}

\* a thread between requests; after a request it keeps the answer it gave
IdleThread ==
    [pc |-> "idle", op |-> "none", code |-> 0,
     reqToken |-> None, reqUser |-> "", reqPass |-> "", reqId |-> "",
     body |-> NoBody, token |-> None,
     users |-> << >>, userOrder |-> << >>, chapters |-> << >>]

\* a wrong write: the keys that the file holds and data lacks are kept
SaveJsonMerging(file, data) ==
    [k \in DOMAIN file \cup DOMAIN data |->
        IF k \in DOMAIN data THEN data[k] ELSE file[k]]

\* save_json, and update_chapter's json.dump: the new content of the file
save_json(file, data) == data

\* login up to users = load_json(USERS_FILE, {})
login_load(th, username, password) ==
    /\ inflight[th].pc = "idle"
    /\ served < MaxRequests
    /\ served' = served + 1
    /\ inflight' = [inflight EXCEPT ![th] =
          [IdleThread EXCEPT !.pc = "loaded", !.op = "login",
              !.reqUser = username, !.reqPass = password,
              !.users = users, !.userOrder = userOrder]]
    /\ UNCHANGED authVars

\* login from the test of the credentials to its return
login_save(th) ==
    LET r == inflight[th]
        a == [IdleThread EXCEPT !.op = "login", !.reqUser = r.reqUser,
                 !.reqPass = r.reqPass] IN
    /\ r.pc = "loaded" /\ r.op = "login"
    /\ IF CredentialsOk(r.users, r.reqUser, r.reqPass)
       THEN /\ nextUuid <= MaxUuid
            /\ users' = save_json(users,
                                  LoginStore(r.users, r.reqUser, nextUuid))
            /\ userOrder' = r.userOrder
            /\ nextUuid' = nextUuid + 1
            /\ issuedUser' = [issuedUser EXCEPT
                                  ![r.reqUser] = @ \cup {nextUuid}]
            /\ inflight' = [inflight EXCEPT ![th] =
                  [a EXCEPT !.code = 200, !.token = nextUuid]]
            /\ UNCHANGED <<ADMIN_TOKEN, adminTokenFile, chapters,
                           issuedAdmin, resp>>
       ELSE /\ inflight' = [inflight EXCEPT ![th] = [a EXCEPT !.code = 401]]
            /\ UNCHANGED authVars

\* add_user up to users = load_json(USERS_FILE, {})
add_user_load(th, header, user, pass) ==
    LET a == [IdleThread EXCEPT !.op = "add_user", !.reqToken = header,
                 !.reqUser = user, !.reqPass = pass] IN
    /\ inflight[th].pc = "idle"
    /\ served < MaxRequests
    /\ served' = served + 1
    /\ inflight' = [inflight EXCEPT ![th] =
          IF ~AddUserAuthorized(header, ADMIN_TOKEN)
          THEN [a EXCEPT !.code = 403]
          ELSE [a EXCEPT !.pc = "loaded", !.users = users,
                   !.userOrder = userOrder]]
    /\ UNCHANGED authVars

\* add_user from the assignment to its return
add_user_save(th) ==
    LET r == inflight[th] IN
    /\ r.pc = "loaded" /\ r.op = "add_user"
    /\ users' = save_json(users, AddUserStore(r.users, r.reqUser, r.reqPass))
    /\ userOrder' = AddUserOrder(r.users, r.userOrder, r.reqUser)
    /\ inflight' = [inflight EXCEPT ![th] =
          [IdleThread EXCEPT !.op = "add_user", !.code = 200,
              !.reqToken = r.reqToken, !.reqUser = r.reqUser,
              !.reqPass = r.reqPass]]
    /\ UNCHANGED <<ADMIN_TOKEN, adminTokenFile, chapters, nextUuid,
                   issuedAdmin, issuedUser, resp>>

\* update_chapter up to chapters = json.load(f)
update_chapter_load(th, header, hasData, id, name, questions) ==
    LET a == [IdleThread EXCEPT !.op = "update_chapter",
                 !.reqToken = header, !.reqId = id,
                 !.body = [name |-> name, questions |-> questions]] IN
    /\ inflight[th].pc = "idle"
    /\ served < MaxRequests
    /\ served' = served + 1
    /\ inflight' = [inflight EXCEPT ![th] =
          IF ~UpdateChapterAuthorized(header, ADMIN_TOKEN)
          THEN [a EXCEPT !.code = 403]
          ELSE IF ~hasData
          THEN [a EXCEPT !.code = 400]
          ELSE [a EXCEPT !.pc = "loaded", !.chapters = chapters]]
    /\ UNCHANGED authVars

\* update_chapter from the test of chapter_id to its return
update_chapter_save(th) ==
    LET r == inflight[th]
        a == [IdleThread EXCEPT !.op = "update_chapter",
                 !.reqToken = r.reqToken, !.reqId = r.reqId,
                 !.body = r.body] IN
    /\ r.pc = "loaded" /\ r.op = "update_chapter"
    /\ IF r.reqId = ""
       THEN /\ inflight' = [inflight EXCEPT ![th] = [a EXCEPT !.code = 400]]
            /\ UNCHANGED authVars
       ELSE /\ chapters' = save_json(chapters,
                              Upsert(r.chapters, r.reqId, r.body.name,
                                     r.body.questions))
            /\ inflight' = [inflight EXCEPT ![th] = [a EXCEPT !.code = 200]]
            /\ UNCHANGED <<ADMIN_TOKEN, adminTokenFile, users, userOrder,
                           nextUuid, issuedAdmin, issuedUser, resp>>

\* ------------------------------------------------------------------- start-up
\* the chapters.json that initialize_files writes
SeedChapters == [x \in {"chapter1"} |->
                    [name |-> "Introduction to Law", questions |-> <<Q1>>]]

\* the state when the server starts to listen: ADMIN_TOKEN is None, or the
\* token an earlier run left in admin_token.txt; both data files exist
Init ==
    /\ \/ /\ ADMIN_TOKEN = None
          /\ adminTokenFile = None
          /\ issuedAdmin = << >>
          /\ nextUuid = 1
       \/ /\ ADMIN_TOKEN = 1
          /\ adminTokenFile = 1
          /\ issuedAdmin = <<1>>
          /\ nextUuid = 2
    /\ users = << >>
    /\ userOrder = << >>
    /\ issuedUser = [u \in UserNames |-> {}]
    /\ chapters = SeedChapters
    /\ resp = BaseResp
    /\ answer = << >>
    /\ verdict = evaluate_with_local_rules(<< >>, "")
    /\ nFrag = 0
    /\ nFill = 0
    /\ capc = "idle"
    /\ cactx = IdleCtx
    /\ inflight = [th \in Threads |-> IdleThread]
    /\ served = 0

\* the credential service: logins, token checks and the user store
Next ==
    \/ \E u \in UserNames, p \in Passwords :
          login(u, p) /\ UNCHANGED <<evalVars, raceVars>>
    \/ \E t \in TokenValues, g \in BOOLEAN :
          \E c \in (IF g THEN ChapterNumbers ELSE {1}) :
             verify(t, g, c) /\ UNCHANGED <<evalVars, raceVars>>
    \/ \E u \in AdminNames, p \in AdminPasswords :
          admin_login(u, p) /\ UNCHANGED <<evalVars, raceVars>>
    \/ \E h \in TokenValues, u \in UserNames, p \in Passwords :
          add_user(h, u, p) /\ UNCHANGED <<evalVars, raceVars>>
    \/ \E h \in TokenValues :
          check_admin_token(h) /\ UNCHANGED <<evalVars, raceVars>>

Spec == Init /\ [][Next]_vars

\* the chapter repository behind the admin gate
NextChapters ==
    \/ \E u \in AdminNames, p \in AdminPasswords :
          admin_login(u, p) /\ UNCHANGED <<evalVars, raceVars>>
    \/ \E id \in ChapterIds :
          get_chapter(id) /\ UNCHANGED <<evalVars, raceVars>>
    \/ \E h \in TokenValues, d \in BOOLEAN, id \in ChapterIds,
          n \in ChapterNames, q \in QuestionLists :
          update_chapter(h, d, id, n, q) /\ UNCHANGED <<evalVars, raceVars>>
    \/ \E h \in TokenValues :
          get_all_chapters(h) /\ UNCHANGED <<evalVars, raceVars>>
    \/ \E h \in TokenValues, id \in ChapterIds :
          delete_chapter(h, id) /\ UNCHANGED <<evalVars, raceVars>>

SpecChapters == Init /\ [][NextChapters]_vars

\* the scorer applied to an answer as it is typed
NextEval ==
    \/ \E f \in Fragments :
          TypeFragment(f) /\ UNCHANGED <<authVars, checkVars, raceVars>>
    \/ TypeFiller /\ UNCHANGED <<authVars, checkVars, raceVars>>

SpecEval == Init /\ [][NextEval]_vars

\* the /check-answer handler
NextCheck ==
    \/ /\ capc = "idle"
       /\ \E b \in BodyKinds : check_answer_bad_body(b)
       /\ UNCHANGED <<authVars, scoreVars, raceVars>>
    \/ /\ capc = "idle"
       /\ \E a \in AnswerKinds, i \in ImageKinds, c \in ChapterArgs :
             \E t \in (IF a = "text" THEN TypedAnswers ELSE {<< >>}) :
                check_answer_begin(a, t, i, c)
       /\ UNCHANGED <<authVars, scoreVars, raceVars>>
    \/ check_answer_local /\ UNCHANGED <<authVars, scoreVars, raceVars>>
    \/ /\ capc = "google"
       /\ \E g \in GoogleCalls : check_answer_google(g)
       /\ UNCHANGED <<authVars, scoreVars, raceVars>>
    \/ check_answer_respond /\ UNCHANGED <<authVars, scoreVars, raceVars>>
    \/ check_answer_return /\ UNCHANGED <<authVars, scoreVars, raceVars>>

SpecCheck == Init /\ [][NextCheck]_vars

\* the requests that rewrite a JSON file, on two threads; the admin's client
\* sends no Admin-Token header or the token in force
NextRace ==
    \/ \E th \in Threads, u \in UserNames, p \in Passwords :
          login_load(th, u, p) /\ UNCHANGED evalVars
    \/ \E th \in Threads :
          login_save(th) /\ UNCHANGED <<evalVars, served>>
    \/ \E th \in Threads, h \in {None, ADMIN_TOKEN}, u \in UserNames,
          p \in Passwords :
          add_user_load(th, h, u, p) /\ UNCHANGED evalVars
    \/ \E th \in Threads :
          add_user_save(th) /\ UNCHANGED <<evalVars, served>>
    \/ \E th \in Threads, h \in {None, ADMIN_TOKEN}, d \in BOOLEAN,
          id \in ChapterIds, q \in QuestionLists :
          update_chapter_load(th, h, d, id, "Intro", q)
             /\ UNCHANGED evalVars
    \/ \E th \in Threads :
          update_chapter_save(th) /\ UNCHANGED <<evalVars, served>>

SpecRace == Init /\ [][NextRace]_vars

\* ----------------------------------------------------------------------
\* Properties of the credential service (checked under Spec)
\* ----------------------------------------------------------------------
AdminMutations == {"add_user", "update_chapter", "delete_chapter"}

\* C1: an admin mutation endpoint accepts a request (answers anything but
\* 403) only if the Admin-Token header equals the current admin token and
\* that token is not null; an absent or different header is rejected.
AdminMutationNeedsCurrentToken ==
    (resp.op \in AdminMutations /\ resp.code # 403)
        => (resp.reqToken = ADMIN_TOKEN /\ ADMIN_TOKEN # None)

\* C2: /login with a stored user's name and exact password answers 200 with
\* a token that /verify then accepts as mode "login" for every chapter;
\* /login with an unknown name or another password answers 401, returns no
\* token and leaves users.json as it was.
LoginGrantsAccess ==
    [][resp'.op = "login" =>
        IF /\ resp'.reqUser \in DOMAIN users
           /\ users[resp'.reqUser].password = resp'.reqPass
        THEN /\ resp'.code = 200
             /\ Truthy(resp'.token)
             /\ \A c \in ChapterNumbers :
                   LET v == VerifyResult(users', userOrder', resp'.token, c)
                   IN v.valid /\ v.mode = "login"
        ELSE /\ resp'.code = 401
             /\ resp'.token = None
             /\ users' = users
             /\ userOrder' = userOrder]_vars

\* C2 witness: a second user has logged in with the right password
LoginGrantsAccessWitness ==
    /\ resp.op = "login" /\ resp.code = 200
    /\ Cardinality(DOMAIN users) = 2
    /\ \A u \in DOMAIN users : Truthy(users[u].token)

\* C3: /verify without a token (absent or empty) reports mode "demo" and
\* is valid exactly when the chapter is 1, whatever users.json holds.
DemoOnlyChapterOne ==
    (resp.op = "verify" /\ resp.reqToken \in {None, EmptyStr})
        => /\ resp.mode = "demo"
           /\ resp.valid <=> (resp.reqChapter = 1)

\* C3 witness: an empty token asks for chapter 2 while a stored user has
\* the empty token, and is refused in demo mode
DemoOnlyChapterOneWitness ==
    /\ resp.op = "verify" /\ resp.reqToken = EmptyStr
    /\ resp.chapterGiven /\ resp.reqChapter = 2
    /\ ~resp.valid
    /\ \E u \in DOMAIN users : users[u].token = EmptyStr

\* the tokens earlier admin logins returned: all but the last one issued
EarlierAdminTokens(issued) ==
    {issued[i] : i \in 1..(Len(issued) - 1)}

\* some admin-gated endpoint lets the header through
SomeGateAccepts(header, adminToken) ==
    \/ AddUserAuthorized(header, adminToken)
    \/ UpdateChapterAuthorized(header, adminToken)
    \/ DeleteChapterAuthorized(header, adminToken)
    \/ GetAllChaptersAuthorized(header, adminToken)

\* C8: a successful /admin/login stores a token never handed out before,
\* every token an earlier admin login returned is then refused by all the
\* admin-gated endpoints, at most one token is accepted at any time, and a
\* failed admin login (like every other request) leaves the token alone.
SingleAdminToken ==
    [][/\ \A t \in EarlierAdminTokens(issuedAdmin') :
             ~SomeGateAccepts(t, ADMIN_TOKEN')
       /\ Cardinality({t \in Uuids : SomeGateAccepts(t, ADMIN_TOKEN')}) <= 1
       /\ (resp'.op = "admin_login" /\ resp'.code = 200)
             => /\ ADMIN_TOKEN' = resp'.token
                /\ Truthy(resp'.token)
                /\ \A i \in 1..Len(issuedAdmin) :
                      issuedAdmin[i] # resp'.token
       /\ ~(resp'.op = "admin_login" /\ resp'.code = 200)
             => ADMIN_TOKEN' = ADMIN_TOKEN]_vars

\* C8 witness: after a second admin login, /admin/add-user refuses the
\* token of the first
SingleAdminTokenWitness ==
    /\ Len(issuedAdmin) >= 2
    /\ resp.op = "add_user" /\ resp.code = 403
    /\ resp.reqToken = issuedAdmin[1]

\* C9: no non-empty token is stored against two users, so /verify finds at
\* most one user for it.
TokenIdentifiesOneUser ==
    \A t \in Uuids :
        Cardinality({u \in DOMAIN users : users[u].token = t}) <= 1

\* C9 witness: two users with the same password are both logged in
TokenIdentifiesOneUserWitness ==
    /\ Cardinality(DOMAIN users) = 2
    /\ \A u \in DOMAIN users :
          Truthy(users[u].token) /\ users[u].password = "pw1"

\* no token opens a session as user u: every token /login has returned to
\* u verifies as "invalid", and no presented token verifies as login of u
NoSessionFor(us, order, issued, u) ==
    \A c \in ChapterNumbers :
        /\ \A t \in issued[u] :
              LET v == VerifyResult(us, order, t, c)
              IN ~v.valid /\ v.mode = "invalid"
        /\ \A t \in TokenValues :
              LET v == VerifyResult(us, order, t, c)
              IN ~(v.mode = "login" /\ v.username = u)

\* C12: an accepted /admin/add-user for u, new or already stored, stores u
\* with the password of the request and the empty token; every token /login
\* had returned to u then verifies as "invalid", no presented token verifies
\* as login of u, and that stays so until a /login of u succeeds (a step
\* other than that leaves u with a session only if u had one); an empty
\* presented token is answered in demo mode and never matched against the
\* empty token stored for u.
AddUserEndsSession ==
    [][/\ (resp'.op = "add_user" /\ resp'.code = 200)
             => /\ resp'.reqUser \in DOMAIN users'
                /\ users'[resp'.reqUser] =
                      [password |-> resp'.reqPass, token |-> EmptyStr]
                /\ NoSessionFor(users', userOrder', issuedUser',
                                resp'.reqUser)
                /\ \A c \in ChapterNumbers :
                      VerifyResult(users', userOrder', EmptyStr, c).mode
                          = "demo"
       /\ <<users, userOrder, issuedUser>>' # <<users, userOrder, issuedUser>>
             => \A u \in DOMAIN users :
                   (/\ ~(resp'.op = "login" /\ resp'.code = 200
                           /\ resp'.reqUser = u)
                    /\ ~NoSessionFor(users', userOrder', issuedUser', u))
                      => ~NoSessionFor(users, userOrder, issuedUser, u)]_vars

\* C12 witness: the admin re-adds a user who had logged in, while the other
\* user holds a session
AddUserEndsSessionWitness ==
    /\ resp.op = "add_user" /\ resp.code = 200
    /\ Truthy(ADMIN_TOKEN) /\ resp.reqToken = ADMIN_TOKEN
    /\ issuedUser[resp.reqUser] # {}
    /\ \E o \in DOMAIN users : o # resp.reqUser /\ Truthy(users[o].token)

\* ----------------------------------------------------------------------
\* Properties of the chapter repository (checked under SpecChapters)
\* ----------------------------------------------------------------------

\* C4: after an accepted update-chapter for a chapter id, get_chapter of
\* that id returns exactly the name and the questions of the request,
\* whether the chapter existed or not, and the same update again leaves
\* chapters.json as it is.
UpsertRoundTrip ==
    (resp.op = "update_chapter" /\ resp.code = 200)
        => /\ GetChapterResult(chapters, resp.reqId)
                = [code |-> 200, body |-> resp.body]
           /\ Upsert(chapters, resp.reqId, resp.body.name,
                     resp.body.questions) = chapters

\* C4 witness: the seeded chapter has been replaced by one without
\* questions while another chapter was created beside it
UpsertRoundTripWitness ==
    /\ resp.op = "update_chapter" /\ resp.code = 200
    /\ resp.reqId = "chapter1" /\ resp.body.questions = << >>
    /\ "ch9" \in DOMAIN chapters

\* ----------------------------------------------------------------------
\* Properties of the answer evaluation (checked under SpecEval, SpecCheck)
\* ----------------------------------------------------------------------

\* the text holds an off-topic term and no legal term
OffTopic(t) ==
    /\ \E k \in 1..Len(wrong_topics) : Contains(StrLower(t), wrong_topics[k])
    /\ \A k \in 1..Len(law_topics) : ~Contains(StrLower(t), law_topics[k])

\* the external call succeeded with a text of more than 50 characters
LongExternalText(call) == call.kind = "ok" /\ call.len > 50

\* C5 as stated: whenever /check-answer answers for a text with an
\* off-topic term and no legal term, the verdict it returns has the fixed
\* score 1 and the relevance "Completely wrong topic".
OffTopicAlwaysNearZero ==
    (capc = "responded" /\ cactx.status = "success"
        /\ OffTopic(cactx.full_text))
        => /\ cactx.result.final_score = 1
           /\ cactx.result.relevance = "Completely wrong topic"

\* C5 as amended: for a text with an off-topic term and no legal term the
\* heuristic verdict has the fixed score 1 and the relevance "Completely
\* wrong topic", whatever its length, paragraphs or chapter, and it is the
\* verdict /check-answer returns unless the external response replaces it.
OffTopicNearZeroUnlessOverridden ==
    (capc \in {"google", "format", "responded"}
        /\ OffTopic(cactx.full_text))
        => /\ cactx.local.score = 1
           /\ cactx.local.relevance = "Completely wrong topic"
           /\ (capc = "responded" /\ ~LongExternalText(cactx.call))
                 => /\ cactx.status = "success"
                    /\ cactx.result.final_score = 1
                    /\ cactx.result.relevance = "Completely wrong topic"
                    /\ cactx.result.icon = "warning"

\* C5 witness: an off-topic answer of more than fifty words in two
\* paragraphs for chapter 3 has been answered with the local verdict
OffTopicNearZeroWitness ==
    /\ capc = "responded" /\ cactx.status = "success"
    /\ OffTopic(cactx.full_text)
    /\ WordCount(cactx.full_text) > 50
    /\ CountBlankLines(cactx.full_text, 1) = 1
    /\ cactx.chapter = 3
    /\ cactx.result.final_score = 1

\* C6 as stated: adding words or legal terms to an answer never lowers the
\* heuristic score, and the score is an integer from 0 to 10.
ScoreNeverDrops ==
    [][/\ verdict'.score >= verdict.score
       /\ verdict'.score \in 0..10]_vars

\* C6 as amended: appending words or legal terms never lowers the heuristic
\* score unless the longer answer is off-topic (an off-topic term and no
\* legal term), and the score is an integer from 0 to 10.
ScoreNeverDropsOnTopic ==
    [][/\ verdict'.score >= verdict.score \/ OffTopic(answer')
       /\ verdict'.score \in 0..10]_vars

\* C6 witness: a long answer in three paragraphs with a legal term has
\* reached the cap of the score
ScoreNeverDropsWitness ==
    /\ verdict.score = 9
    /\ verdict.words >= 200
    /\ CountBlankLines(answer, 1) = 1
    /\ Contains(StrLower(answer), law_topics[2])

\* C7: /check-answer always answers 200 with status "success" or
\* "processing"; an exception that reaches the handler's except branch
\* gives the pending-analysis payload with status "processing", and a
\* failed image or external call leaves a "success".
NeverHardFailure ==
    capc = "responded"
        => /\ cactx.code = 200
           /\ cactx.status \in {"success", "processing"}
           /\ cactx.error # ""
                 => cactx.status = "processing"
                    /\ cactx.result = PendingResult
           /\ cactx.error = ""
                 => cactx.status = "success"
                    /\ cactx.result.kind = "formatted"

\* C7 witness: a request without a JSON body has been answered "processing"
NeverHardFailureWitness ==
    /\ capc = "responded"
    /\ cactx.error = "missing"
    /\ cactx.status = "processing"

\* C10: the heuristic verdict is computed before the external call; the
\* text handed to the formatter is the external response exactly when the
\* call succeeded with more than 50 characters and is the unchanged
\* heuristic verdict otherwise, and the request ends with "success".
HeuristicStandsUnlessOverridden ==
    (capc \in {"format", "responded"} /\ cactx.error = "")
        => /\ Len(cactx.trace) >= 2
           /\ cactx.trace[1] = "local" /\ cactx.trace[2] = "google"
           /\ cactx.local.src = "local"
           /\ IF LongExternalText(cactx.call)
              THEN cactx.ai_response.src = "google"
                   /\ cactx.ai_response.len = cactx.call.len
              ELSE cactx.ai_response = cactx.local
           /\ capc = "responded"
                 => /\ cactx.status = "success"
                    /\ cactx.result
                        = format_response(cactx.ai_response, cactx.chapter)

\* C10 witness: the external call returned exactly 50 characters and the
\* request ended "success" with the heuristic verdict
HeuristicStandsWitness ==
    /\ capc = "responded"
    /\ cactx.call = [kind |-> "ok", len |-> 50]
    /\ cactx.ai_response = cactx.local
    /\ cactx.result.final_score = cactx.local.score
    /\ cactx.status = "success"

\* ----------------------------------------------------------------------
\* Properties of concurrent requests (checked under SpecRace)
\* ----------------------------------------------------------------------

\* C11: a request that rewrites a JSON file and answers 200 leaves the file
\* as the copy it read with its own change in it and nothing else: what
\* another request wrote between that read and this write is gone, though
\* that request answered 200 too (last write wins, a lost update).
LastWriteWins ==
    [][\A th \in Threads :
          LET r == inflight[th] IN
          (r.pc = "loaded" /\ inflight'[th].pc = "idle"
              /\ inflight'[th].code = 200)
          => /\ r.op = "update_chapter"
                   => /\ DOMAIN chapters' = DOMAIN r.chapters \cup {r.reqId}
                      /\ chapters'[r.reqId] = r.body
                      /\ \A k \in DOMAIN r.chapters \ {r.reqId} :
                            chapters'[k] = r.chapters[k]
             /\ r.op = "add_user"
                   => /\ DOMAIN users' = DOMAIN r.users \cup {r.reqUser}
                      /\ users'[r.reqUser] =
                            [password |-> r.reqPass, token |-> EmptyStr]
                      /\ \A k \in DOMAIN r.users \ {r.reqUser} :
                            users'[k] = r.users[k]
             /\ r.op = "login"
                   => /\ DOMAIN users' = DOMAIN r.users
                      /\ users'[r.reqUser] =
                            [password |-> r.reqPass,
                             token |-> inflight'[th].token]
                      /\ \A k \in DOMAIN r.users \ {r.reqUser} :
                            users'[k] = r.users[k]]_vars

\* C11 witness: two update-chapter requests for different chapter ids have
\* both answered 200 and chapters.json lacks the chapter of one of them
LostUpdateWitness ==
    /\ \A th \in Threads :
          /\ inflight[th].pc = "idle"
          /\ inflight[th].op = "update_chapter"
          /\ inflight[th].code = 200
    /\ inflight["t1"].reqId = "ch9" /\ inflight["t2"].reqId = "chapter1"
    /\ "ch9" \notin DOMAIN chapters

\* a /login and an /admin/add-user for another user have both answered 200
\* and users.json lacks the added user or holds another token than the one
\* /login returned
LostLoginOrUser ==
    /\ inflight["t1"].pc = "idle" /\ inflight["t2"].pc = "idle"
    /\ inflight["t1"].op = "login" /\ inflight["t1"].code = 200
    /\ inflight["t2"].op = "add_user" /\ inflight["t2"].code = 200
    /\ inflight["t1"].reqUser # inflight["t2"].reqUser
    /\ \/ inflight["t2"].reqUser \notin DOMAIN users
       \/ users[inflight["t1"].reqUser].token # inflight["t1"].token

====
